---- MODULE Spec2Model ----
(***************************************************************************)
(* Model of the Bazel BUILD-file CodeLens provider and of                  *)
(* getTargetsForBuildFile.                                                 *)
(*                                                                         *)
(* Strings are TLA+ strings; a path is the string the program sees.  The   *)
(* "path" module of the host is modelled for both of its flavours (posix   *)
(* and win32), restricted to absolute paths (win32: drive-letter paths).   *)
(***************************************************************************)
EXTENDS Integers, Sequences, FiniteSets, TLC

VARIABLES
  platform,   \* flavour of the host's "path" module: "posix" or "win32"
  inv,        \* inv[i]: the i-th invocation of an async function
  queries,    \* BazelQuery objects constructed so far, in order
  warnings    \* vscode.window.showWarningMessage calls so far, in order

vars == <<platform, inv, queries, warnings>>

(***************************************************************************)
(* Bounds                                                                  *)
(***************************************************************************)
MaxInv == 2      \* concurrent invocations in Spec
MaxRules == 2    \* rules in one query result in SpecLens

(***************************************************************************)
(* String helpers                                                          *)
(***************************************************************************)
Char(s, i) == SubSeq(s, i, i)

Max(S) == CHOOSE m \in S : \A x \in S : x <= m

UpperChars == "ABCDEFGHIJKLMNOPQRSTUVWXYZ"
LowerChars == "abcdefghijklmnopqrstuvwxyz"

toLowerCaseChar(c) ==
  IF \E k \in 1..Len(UpperChars) : Char(UpperChars, k) = c
  THEN Char(LowerChars, CHOOSE k \in 1..Len(UpperChars) : Char(UpperChars, k) = c)
  ELSE c

RECURSIVE toLowerCase(_)
toLowerCase(s) ==
  IF Len(s) = 0 THEN ""
  ELSE toLowerCaseChar(Char(s, 1)) \o toLowerCase(SubSeq(s, 2, Len(s)))

endsWith_anywhere(s, suffix) ==
  \E k \in 1..Len(s) :
      k + Len(suffix) - 1 <= Len(s) /\ SubSeq(s, k, k + Len(suffix) - 1) = suffix

\* String.prototype.endsWith
endsWith(s, suffix) ==
  /\ Len(s) >= Len(suffix)
  /\ SubSeq(s, Len(s) - Len(suffix) + 1, Len(s)) = suffix

(***************************************************************************)
(* The host's "path" module                                                *)
(***************************************************************************)
isPathSeparator(p, c) == c = "/" \/ (p = "win32" /\ c = "\\")

sep(p) == IF p = "win32" THEN "\\" ELSE "/"

\* The non-empty segments of s between path separators.
RECURSIVE splitPath(_, _, _, _, _)
splitPath(p, s, i, cur, acc) ==
  IF i > Len(s)
  THEN IF cur = "" THEN acc ELSE Append(acc, cur)
  ELSE IF isPathSeparator(p, Char(s, i))
       THEN splitPath(p, s, i + 1, "", IF cur = "" THEN acc ELSE Append(acc, cur))
       ELSE splitPath(p, s, i + 1, cur \o Char(s, i), acc)

\* normalizeString for an absolute path: "." is dropped, ".." pops (and is
\* dropped at the root).
RECURSIVE normalizeSegments(_, _)
normalizeSegments(segs, acc) ==
  IF segs = <<>> THEN acc
  ELSE LET h == Head(segs)
           t == Tail(segs)
       IN IF h = "." THEN normalizeSegments(t, acc)
          ELSE IF h = ".."
               THEN normalizeSegments(t, IF acc = <<>> THEN acc
                                         ELSE SubSeq(acc, 1, Len(acc) - 1))
               ELSE normalizeSegments(t, Append(acc, h))

RECURSIVE joinSegments(_, _)
joinSegments(segs, s) ==
  IF segs = <<>> THEN ""
  ELSE IF Len(segs) = 1 THEN Head(segs)
       ELSE Head(segs) \o s \o joinSegments(Tail(segs), s)

\* The device ("C:") of a win32 path, "" when there is none.
device(p, s) ==
  IF p = "win32" /\ Len(s) >= 2 /\ Char(s, 2) = ":" THEN SubSeq(s, 1, 2) ELSE ""

\* path.resolve of an absolute path, as [device, segments].
resolve(p, s) ==
  LET d == device(p, s) IN
  [device |-> d,
   segments |-> normalizeSegments(
                  splitPath(p, SubSeq(s, Len(d) + 1, Len(s)), 1, "", <<>>), <<>>)]

\* The string path.resolve returns.
resolved(p, r) == r.device \o sep(p) \o joinSegments(r.segments, sep(p))

\* Length of the longest common prefix of two segment sequences.
commonPrefix(a, b) ==
  LET n == IF Len(a) < Len(b) THEN Len(a) ELSE Len(b)
      agree == {k \in 0..n : \A j \in 1..k : a[j] = b[j]}
  IN Max(agree)

lowerSegments(segs) == [k \in 1..Len(segs) |-> toLowerCase(segs[k])]

\* path.relative(from, to): posix compares segments exactly; win32 compares
\* them case-insensitively, returns the resolved `to` when the devices differ,
\* and always emits backslashes.
relative(p, from, to) ==
  LET f == resolve(p, from)
      t == resolve(p, to)
      fs == IF p = "win32" THEN lowerSegments(f.segments) ELSE f.segments
      ts == IF p = "win32" THEN lowerSegments(t.segments) ELSE t.segments
      k == commonPrefix(fs, ts)
      ups == [j \in 1..(Len(fs) - k) |-> ".."]
  IN IF p = "win32" /\ toLowerCase(f.device) # toLowerCase(t.device)
     THEN resolved(p, t)
     ELSE joinSegments(ups \o SubSeq(t.segments, k + 1, Len(t.segments)), sep(p))

\* path.dirname
dirname(p, path) ==
  LET len == Len(path)
      isDeviceRoot == p = "win32" /\ len >= 2 /\ Char(path, 2) = ":"
                      /\ ~isPathSeparator(p, Char(path, 1))
      hasRoot == len >= 1 /\ isPathSeparator(p, Char(path, 1))
      \* win32 only: length of the root ("C:" or "C:\"), -1 when there is none
      rootEnd == IF isDeviceRoot
                 THEN (IF len > 2 /\ isPathSeparator(p, Char(path, 3)) THEN 3 ELSE 2)
                 ELSE IF hasRoot THEN 1 ELSE -1
      \* first 1-based position the backwards scan looks at
      first == IF p = "win32" THEN (IF rootEnd = -1 THEN 1 ELSE rootEnd + 1) ELSE 2
      nonSep == {i \in first..len : ~isPathSeparator(p, Char(path, i))}
      cand == IF nonSep = {} THEN {}
              ELSE {i \in first..Max(nonSep) : isPathSeparator(p, Char(path, i))}
  IN IF len = 0 THEN "."
     ELSE IF p = "win32"
          THEN IF len = 1 THEN (IF hasRoot THEN path ELSE ".")
               ELSE IF cand = {}
                    THEN (IF rootEnd = -1 THEN "." ELSE SubSeq(path, 1, rootEnd))
                    ELSE SubSeq(path, 1, Max(cand) - 1)
          ELSE IF cand = {} THEN (IF hasRoot THEN "/" ELSE ".")
               ELSE IF hasRoot /\ Max(cand) = 2 THEN "//"
                    ELSE SubSeq(path, 1, Max(cand) - 1)

(***************************************************************************)
(* Values                                                                  *)
(***************************************************************************)
\* `undefined`, as returned by getBazelWorkspaceFolder; not a path.
Undefined == "undefined"

Platforms == {"posix", "win32"}

\* new CodeLensCommandAdapter(bazelWorkspaceDirectory, [target])
CodeLensCommandAdapter(bazelWorkspaceDirectory, targets) ==
  [workspaceDirectory |-> bazelWorkspaceDirectory, targets |-> targets]

\* new vscode.CodeLens(range, cmd)
CodeLens(range, cmd) == [range |-> range, command |-> cmd]

WarningText ==
  "Bazel BUILD CodeLens unavailable as currently opened file is not in " \o
  "a Bazel workspace"

NoResult == [rules |-> <<>>]

IdleInvocation ==
  [fn |-> "none", pc |-> "idle", fsPath |-> "", workspace |-> "", pkg |-> "",
   query |-> 0, lenses |-> <<>>, targets |-> NoResult, error |-> ""]

(***************************************************************************)
(* Package label and query expression                                      *)
(***************************************************************************)
provideCodeLenses_pkg_keepDot(p, workspace, fsPath) ==
  "//" \o dirname(p, relative(p, workspace, fsPath))

\* provideCodeLenses: relPathToDoc, relDirWithDoc, pkg
provideCodeLenses_pkg(p, workspace, fsPath) ==
  LET relPathToDoc == relative(p, workspace, fsPath)
      relDir == dirname(p, relPathToDoc)
      relDirWithDoc == IF relDir = "." THEN "" ELSE relDir
  IN "//" \o relDirWithDoc

getTargetsForBuildFile_pkg_keepDot(p, workspace, buildFile) ==
  "//" \o dirname(p, relative(p, workspace, buildFile))

\* getTargetsForBuildFile: relPathToDoc, relDirWithDoc, pkg
getTargetsForBuildFile_pkg(p, workspace, buildFile) ==
  LET relPathToDoc == relative(p, workspace, buildFile)
      relDir == dirname(p, relPathToDoc)
      relDirWithDoc == IF relDir = "." THEN "" ELSE relDir
  IN "//" \o relDirWithDoc

\* `'kind(rule, ${pkg}:all)'`
provideCodeLenses_query(pkg) == "'kind(rule, " \o pkg \o ":all)'"

\* `'kind(rule, ${pkg}:all)'`
getTargetsForBuildFile_query(pkg) == "'kind(rule, " \o pkg \o ":all)'"

\* new BazelQuery(workspace, query, options), not yet settled
BazelQuery(i, method, workspace, query, options) ==
  [by |-> i, method |-> method, workspace |-> workspace, query |-> query,
   options |-> options, state |-> "pending", result |-> NoResult, error |-> ""]

(***************************************************************************)
(* addCodeLens                                                             *)
(***************************************************************************)
addCodeLens_cmd_buildOnly(bazelWorkspaceDirectory, rule) ==
  LET target == rule.name IN
  [arguments |-> <<CodeLensCommandAdapter(bazelWorkspaceDirectory, <<target>>)>>,
   command |-> "bazel.buildTarget",
   title |-> "Build " \o target,
   tooltip |-> "Build " \o target]

\* The vscode.Command built for one rule.
addCodeLens_cmd(bazelWorkspaceDirectory, rule) ==
  LET target == rule.name IN
  IF endsWith(rule.ruleClass, "_test")
  THEN [arguments |-> <<CodeLensCommandAdapter(bazelWorkspaceDirectory, <<target>>)>>,
        command |-> "bazel.testTarget",
        title |-> "Test " \o target,
        tooltip |-> "Build " \o target]
  ELSE [arguments |-> <<CodeLensCommandAdapter(bazelWorkspaceDirectory, <<target>>)>>,
        command |-> "bazel.buildTarget",
        title |-> "Build " \o target,
        tooltip |-> "Build " \o target]

RECURSIVE addCodeLens_loop(_, _, _)
RECURSIVE addCodeLens_loop_unshift(_, _, _)
addCodeLens_loop_unshift(bazelWorkspaceDirectory, rules, result) ==
  IF rules = <<>> THEN result
  ELSE LET rule == Head(rules)
           loc == rule.location
       IN addCodeLens_loop_unshift(
            bazelWorkspaceDirectory, Tail(rules),
            <<CodeLens(loc.range, addCodeLens_cmd(bazelWorkspaceDirectory, rule))>>
              \o result)

\* The for loop over queryResult.rules, pushing one CodeLens per rule.
addCodeLens_loop(bazelWorkspaceDirectory, rules, result) ==
  IF rules = <<>> THEN result
  ELSE LET rule == Head(rules)
           loc == rule.location
       IN addCodeLens_loop(
            bazelWorkspaceDirectory, Tail(rules),
            Append(result, CodeLens(loc.range,
                                    addCodeLens_cmd(bazelWorkspaceDirectory, rule))))

addCodeLens(bazelWorkspaceDirectory, queryResult) ==
  addCodeLens_loop(bazelWorkspaceDirectory, queryResult.rules, <<>>)

(***************************************************************************)
(* Inputs                                                                  *)
(***************************************************************************)
\* Workspace roots of each platform.
Workspaces(p) ==
  IF p = "win32" THEN {"C:\\w", "C:\\w\\a", "D:\\w"} ELSE {"/w", "/w/a", "/x"}

\* Directory chains below a workspace root.
RelDirs == {<<"a">>, <<"a", "b">>, <<".h">>}

\* The BUILD file in directory w/segs[1]/.../segs[n], written with separator s.
Under(w, segs, s) ==
  IF segs = <<>> THEN w \o s \o "BUILD"
  ELSE w \o s \o joinSegments(segs, s) \o s \o "BUILD"

\* Separators a path of the platform may be written with.
Separators(p) == IF p = "win32" THEN {"\\", "/"} ELSE {"/"}

BuildFiles(p) ==
  {Under(w, segs, s) : w \in Workspaces(p), segs \in RelDirs \cup {<<>>},
                       s \in Separators(p)}

\* A few of them, for the runs with several invocations.
SomeWorkspaces(p) == IF p = "win32" THEN {"C:\\w"} ELSE {"/w"}
SomeBuildFiles(p) ==
  {Under(w, segs, sep(p)) : w \in SomeWorkspaces(p), segs \in {<<>>, <<"a", "b">>}}

\* getBazelWorkspaceFolder(fsPath): a workspace root or undefined.
getBazelWorkspaceFolder(p, fsPath) == Workspaces(p) \cup {Undefined}

Names == {"//a/b:t", "//a/b:m"}
RuleClasses == {"go_test", "go_binary", "test", "go_test_lib", "_test"}
\* Where the BUILD file declares each target.
RangeOf(name) == IF name = "//a/b:t" THEN 2 ELSE 1
Rules ==
  {[name |-> n, ruleClass |-> c, location |-> [range |-> RangeOf(n)]] :
     n \in Names, c \in RuleClasses}

RECURSIVE SeqsUpTo(_, _)
SeqsUpTo(S, n) ==
  IF n = 0 THEN {<<>>}
  ELSE LET shorter == SeqsUpTo(S, n - 1)
       IN shorter \cup {Append(q, x) : q \in {r \in shorter : Len(r) = n - 1}, x \in S}

\* QueryResult values the client may produce.
QueryResults == {[rules |-> rs] : rs \in SeqsUpTo(Rules, MaxRules)}

SomeQueryResults ==
  {NoResult,
   [rules |-> <<[name |-> "//a/b:t", ruleClass |-> "go_test", location |-> [range |-> 2]],
                [name |-> "//a/b:m", ruleClass |-> "go_binary", location |-> [range |-> 1]]>>]}

Errors == {"bazel exited with 1", "cannot parse output"}

(***************************************************************************)
(* Operations                                                              *)
(***************************************************************************)
Invocations == 1..MaxInv

\* Invocation slots are taken in order.
CanStart(i) ==
  /\ inv[i].pc = "idle"
  /\ \A j \in Invocations : j < i => inv[j].pc # "idle"

provideCodeLenses_silent(i, fsPath, workspace) ==
  /\ CanStart(i)
  /\ IF workspace = Undefined
     THEN /\ inv' = [inv EXCEPT ![i] =
                       [@ EXCEPT !.fn = "provideCodeLenses", !.pc = "fulfilled",
                                 !.fsPath = fsPath, !.workspace = workspace,
                                 !.lenses = <<>>]]
          /\ UNCHANGED <<queries, warnings>>
     ELSE LET pkg == provideCodeLenses_pkg(platform, workspace, fsPath) IN
          /\ queries' = Append(queries,
                               BazelQuery(i, "runAndParse", workspace,
                                          provideCodeLenses_query(pkg), <<>>))
          /\ inv' = [inv EXCEPT ![i] =
                       [@ EXCEPT !.fn = "provideCodeLenses", !.pc = "await",
                                 !.fsPath = fsPath, !.workspace = workspace,
                                 !.pkg = pkg, !.query = Len(queries) + 1]]
          /\ UNCHANGED warnings
  /\ UNCHANGED platform

\* provideCodeLenses(document, token) up to its await; `workspace` is what
\* getBazelWorkspaceFolder(document.uri.fsPath) returned.
provideCodeLenses(i, fsPath, workspace) ==
  /\ CanStart(i)
  /\ IF workspace = Undefined
     THEN /\ warnings' = Append(warnings, [by |-> i, message |-> WarningText])
          /\ inv' = [inv EXCEPT ![i] =
                       [@ EXCEPT !.fn = "provideCodeLenses", !.pc = "fulfilled",
                                 !.fsPath = fsPath, !.workspace = workspace,
                                 !.lenses = <<>>]]
          /\ UNCHANGED queries
     ELSE LET pkg == provideCodeLenses_pkg(platform, workspace, fsPath) IN
          /\ queries' = Append(queries,
                               BazelQuery(i, "runAndParse", workspace,
                                          provideCodeLenses_query(pkg), <<>>))
          /\ inv' = [inv EXCEPT ![i] =
                       [@ EXCEPT !.fn = "provideCodeLenses", !.pc = "await",
                                 !.fsPath = fsPath, !.workspace = workspace,
                                 !.pkg = pkg, !.query = Len(queries) + 1]]
          /\ UNCHANGED warnings
  /\ UNCHANGED platform

provideCodeLenses_resume_swallow(i) ==
  /\ inv[i].fn = "provideCodeLenses"
  /\ inv[i].pc = "await"
  /\ queries[inv[i].query].state # "pending"
  /\ LET q == queries[inv[i].query] IN
     IF q.state = "rejected"
     THEN inv' = [inv EXCEPT ![i] = [@ EXCEPT !.pc = "fulfilled", !.lenses = <<>>]]
     ELSE inv' = [inv EXCEPT ![i] =
                    [@ EXCEPT !.pc = "fulfilled",
                              !.lenses = addCodeLens(inv[i].workspace, q.result)]]
  /\ UNCHANGED <<platform, queries, warnings>>

\* provideCodeLenses after its await: the query has settled.
provideCodeLenses_resume(i) ==
  /\ inv[i].fn = "provideCodeLenses"
  /\ inv[i].pc = "await"
  /\ queries[inv[i].query].state # "pending"
  /\ LET q == queries[inv[i].query] IN
     IF q.state = "rejected"
     THEN inv' = [inv EXCEPT ![i] = [@ EXCEPT !.pc = "rejected", !.error = q.error]]
     ELSE inv' = [inv EXCEPT ![i] =
                    [@ EXCEPT !.pc = "fulfilled",
                              !.lenses = addCodeLens(inv[i].workspace, q.result)]]
  /\ UNCHANGED <<platform, queries, warnings>>

getTargetsForBuildFile_shared(i, workspace, buildFile) ==
  /\ CanStart(i)
  /\ LET pkg == getTargetsForBuildFile_pkg(platform, workspace, buildFile)
         same == {k \in 1..Len(queries) :
                    /\ queries[k].state = "pending"
                    /\ queries[k].method = "queryTargets"
                    /\ queries[k].workspace = workspace
                    /\ queries[k].query = getTargetsForBuildFile_query(pkg)}
     IN
     IF same # {}
     THEN /\ inv' = [inv EXCEPT ![i] =
                       [@ EXCEPT !.fn = "getTargetsForBuildFile", !.pc = "await",
                                 !.fsPath = buildFile, !.workspace = workspace,
                                 !.pkg = pkg, !.query = Max(same)]]
          /\ UNCHANGED queries
     ELSE /\ queries' = Append(queries,
                               BazelQuery(i, "queryTargets", workspace,
                                          getTargetsForBuildFile_query(pkg), <<>>))
          /\ inv' = [inv EXCEPT ![i] =
                       [@ EXCEPT !.fn = "getTargetsForBuildFile", !.pc = "await",
                                 !.fsPath = buildFile, !.workspace = workspace,
                                 !.pkg = pkg, !.query = Len(queries) + 1]]
  /\ UNCHANGED <<platform, warnings>>

\* getTargetsForBuildFile(workspace, buildFile) up to its await.
getTargetsForBuildFile(i, workspace, buildFile) ==
  /\ CanStart(i)
  /\ LET pkg == getTargetsForBuildFile_pkg(platform, workspace, buildFile) IN
     /\ queries' = Append(queries,
                          BazelQuery(i, "queryTargets", workspace,
                                     getTargetsForBuildFile_query(pkg), <<>>))
     /\ inv' = [inv EXCEPT ![i] =
                  [@ EXCEPT !.fn = "getTargetsForBuildFile", !.pc = "await",
                            !.fsPath = buildFile, !.workspace = workspace,
                            !.pkg = pkg, !.query = Len(queries) + 1]]
  /\ UNCHANGED <<platform, warnings>>

\* getTargetsForBuildFile after its await: the query has settled.
getTargetsForBuildFile_resume(i) ==
  /\ inv[i].fn = "getTargetsForBuildFile"
  /\ inv[i].pc = "await"
  /\ queries[inv[i].query].state # "pending"
  /\ LET q == queries[inv[i].query] IN
     IF q.state = "rejected"
     THEN inv' = [inv EXCEPT ![i] = [@ EXCEPT !.pc = "rejected", !.error = q.error]]
     ELSE inv' = [inv EXCEPT ![i] = [@ EXCEPT !.pc = "fulfilled", !.targets = q.result]]
  /\ UNCHANGED <<platform, queries, warnings>>

\* The Query Client fulfils the promise of the k-th query.
queryResolves(k, queryResult) ==
  /\ k \in 1..Len(queries)
  /\ queries[k].state = "pending"
  /\ queries' = [queries EXCEPT ![k] =
                   [@ EXCEPT !.state = "resolved", !.result = queryResult]]
  /\ UNCHANGED <<platform, inv, warnings>>

\* The Query Client rejects the promise of the k-th query.
queryRejects(k, error) ==
  /\ k \in 1..Len(queries)
  /\ queries[k].state = "pending"
  /\ queries' = [queries EXCEPT ![k] =
                   [@ EXCEPT !.state = "rejected", !.error = error]]
  /\ UNCHANGED <<platform, inv, warnings>>

(***************************************************************************)
(* Specifications                                                          *)
(***************************************************************************)
Init ==
  /\ platform \in Platforms
  /\ inv = [i \in Invocations |-> IdleInvocation]
  /\ queries = <<>>
  /\ warnings = <<>>

\* Several concurrent invocations over a few inputs.
Next ==
  \/ \E i \in Invocations, fsPath \in SomeBuildFiles(platform) :
       \E workspace \in getBazelWorkspaceFolder(platform, fsPath)
                          \cap (SomeWorkspaces(platform) \cup {Undefined}) :
         provideCodeLenses(i, fsPath, workspace)
  \/ \E i \in Invocations : provideCodeLenses_resume(i)
  \/ \E i \in Invocations, workspace \in SomeWorkspaces(platform),
        buildFile \in SomeBuildFiles(platform) :
       getTargetsForBuildFile(i, workspace, buildFile)
  \/ \E i \in Invocations : getTargetsForBuildFile_resume(i)
  \/ \E k \in Invocations, queryResult \in SomeQueryResults :
       queryResolves(k, queryResult)
  \/ \E k \in Invocations, error \in Errors : queryRejects(k, error)

Spec == Init /\ [][Next]_vars

\* One invocation over every workspace root and BUILD file.
NextLabel ==
  \/ \E fsPath \in BuildFiles(platform) :
       \E workspace \in getBazelWorkspaceFolder(platform, fsPath) :
         provideCodeLenses(1, fsPath, workspace)
  \/ \E workspace \in Workspaces(platform), buildFile \in BuildFiles(platform) :
       getTargetsForBuildFile(1, workspace, buildFile)

SpecLabel == Init /\ [][NextLabel]_vars

\* One provideCodeLenses invocation over every query result.
NextLens ==
  \/ \E fsPath \in SomeBuildFiles(platform), workspace \in SomeWorkspaces(platform) :
       provideCodeLenses(1, fsPath, workspace)
  \/ \E queryResult \in QueryResults : queryResolves(1, queryResult)
  \/ provideCodeLenses_resume(1)

SpecLens == Init /\ [][NextLens]_vars

(***************************************************************************)
(* Properties                                                              *)
(***************************************************************************)
\* Invocation i has computed a package label.
Labelled(i) == inv[i].pc # "idle" /\ inv[i].workspace # Undefined

\* Invocation i was given BUILD file w/segs/BUILD for its workspace root w.
IsUnder(i, segs) ==
  \E s \in Separators(platform) : inv[i].fsPath = Under(inv[i].workspace, segs, s)

NoBackslash(s) == \A k \in 1..Len(s) : Char(s, k) # "\\"

StartsWith(s, prefix) ==
  Len(s) >= Len(prefix) /\ SubSeq(s, 1, Len(prefix)) = prefix

\* The directory part of a package label: what follows "//".
DirPart(pkg) == SubSeq(pkg, 3, Len(pkg))

QueriesBy(i) == {k \in 1..Len(queries) : queries[k].by = i}
WarningsBy(i) == {k \in 1..Len(warnings) : warnings[k].by = i}

\* C1: for a BUILD file nested one or more directories below its workspace
\* root, W/a/b/BUILD, the package label is "//a/b" (the directories joined
\* with forward slashes) and the query is 'kind(rule, //a/b:all)'.
C1_NestedLabel ==
  \A i \in Invocations : \A segs \in RelDirs :
    (Labelled(i) /\ IsUnder(i, segs)) =>
      /\ inv[i].pkg = "//" \o joinSegments(segs, "/")
      /\ queries[inv[i].query].query =
           "'kind(rule, //" \o joinSegments(segs, "/") \o ":all)'"

\* C2: for a BUILD file directly in the workspace root, W/BUILD, the package
\* label is "//" and the query is 'kind(rule, //:all)'.
C2_RootLabel ==
  \A i \in Invocations :
    (Labelled(i) /\ IsUnder(i, <<>>)) =>
      /\ inv[i].pkg = "//"
      /\ queries[inv[i].query].query = "'kind(rule, //:all)'"

C2_Witness ==
  \E i \in Invocations :
    /\ Labelled(i) /\ IsUnder(i, <<>>)
    /\ inv[i].fn = "provideCodeLenses"
    /\ queries[inv[i].query].query = "'kind(rule, //:all)'"

\* C3: on either platform the package label and the query expression contain
\* no backslash.
C3_ForwardSlashesOnly ==
  \A i \in Invocations :
    Labelled(i) => /\ NoBackslash(inv[i].pkg)
                   /\ NoBackslash(queries[inv[i].query].query)

\* C4: when the workspace root is undefined, provideCodeLenses is fulfilled
\* with an empty list, has shown exactly one warning and has constructed no
\* query.
C4_NoWorkspace ==
  \A i \in Invocations :
    (inv[i].fn = "provideCodeLenses" /\ inv[i].workspace = Undefined) =>
      /\ inv[i].pc = "fulfilled"
      /\ inv[i].lenses = <<>>
      /\ inv[i].error = ""
      /\ Cardinality(WarningsBy(i)) = 1
      /\ \A k \in WarningsBy(i) : warnings[k].message = WarningText
      /\ QueriesBy(i) = {}
      /\ inv[i].query = 0

C4_Witness ==
  \E i, j \in Invocations :
    /\ inv[i].fn = "provideCodeLenses" /\ inv[i].workspace = Undefined
    /\ inv[i].pc = "fulfilled"
    /\ Labelled(j) /\ Len(queries) = 1 /\ Len(warnings) = 1

\* C5: once an invocation has gone past its await on a query that was
\* rejected, the invocation is rejected with the query's error, carries no
\* result, and has issued that one query only.
C5_ErrorPropagates ==
  \A i \in Invocations :
    (Labelled(i) /\ inv[i].pc # "await"
       /\ queries[inv[i].query].state = "rejected") =>
      /\ inv[i].pc = "rejected"
      /\ inv[i].error = queries[inv[i].query].error
      /\ inv[i].lenses = <<>>
      /\ inv[i].targets = NoResult
      /\ QueriesBy(i) = {inv[i].query}

C5_Witness ==
  \E i, j \in Invocations :
    /\ inv[i].fn = "provideCodeLenses" /\ inv[i].pc = "rejected"
    /\ inv[j].fn = "getTargetsForBuildFile" /\ inv[j].pc = "rejected"
    /\ inv[i].error # inv[j].error

\* The rules and lenses of a fulfilled provideCodeLenses invocation that
\* awaited a query.
Answered(i) ==
  /\ inv[i].fn = "provideCodeLenses"
  /\ inv[i].pc = "fulfilled"
  /\ inv[i].query # 0
RulesOf(i) == queries[inv[i].query].result.rules

\* C6: a rule whose class ends with "_test" gets, at its position, the command
\* "bazel.testTarget" with title "Test <name>" and tooltip "Build <name>".
C6_TestAction ==
  \A i \in Invocations :
    Answered(i) =>
      \A k \in 1..Len(RulesOf(i)) :
        RulesOf(i)[k].ruleClass \in {"go_test", "_test"} =>
          /\ k <= Len(inv[i].lenses)
          /\ inv[i].lenses[k].command.command = "bazel.testTarget"
          /\ inv[i].lenses[k].command.title = "Test " \o RulesOf(i)[k].name
          /\ inv[i].lenses[k].command.tooltip = "Build " \o RulesOf(i)[k].name

C6_Witness ==
  \E i \in Invocations :
    /\ Answered(i)
    /\ Len(RulesOf(i)) = 1
    /\ RulesOf(i)[1].ruleClass = "go_test"
    /\ RulesOf(i)[1].name = "//a/b:t"
    /\ inv[i].lenses[1].command.title = "Test //a/b:t"

\* C7: a rule whose class does not end with "_test" gets, at its position, the
\* command "bazel.buildTarget" with title and tooltip "Build <name>".
C7_BuildAction ==
  \A i \in Invocations :
    Answered(i) =>
      \A k \in 1..Len(RulesOf(i)) :
        RulesOf(i)[k].ruleClass \in {"go_binary", "test", "go_test_lib"} =>
          /\ k <= Len(inv[i].lenses)
          /\ inv[i].lenses[k].command.command = "bazel.buildTarget"
          /\ inv[i].lenses[k].command.title = "Build " \o RulesOf(i)[k].name
          /\ inv[i].lenses[k].command.tooltip = "Build " \o RulesOf(i)[k].name

C7_Witness ==
  \E i \in Invocations :
    /\ Answered(i)
    /\ Len(RulesOf(i)) = 2
    /\ RulesOf(i)[1].ruleClass = "go_test_lib"
    /\ RulesOf(i)[2].ruleClass = "go_binary"
    /\ RulesOf(i)[2].name = "//a/b:m"
    /\ inv[i].lenses[1].command.command = "bazel.buildTarget"
    /\ inv[i].lenses[2].command.title = "Build //a/b:m"

\* C8: the lenses are the rules taken one by one in the client's order: as
\* many lenses as rules, the k-th lens carrying the k-th rule's range, the
\* workspace root and the one-element list of the k-th rule's name.
C8_OnePerRuleInOrder ==
  \A i \in Invocations :
    Answered(i) =>
      /\ Len(inv[i].lenses) = Len(RulesOf(i))
      /\ inv[i].error = ""
      /\ \A k \in 1..Len(RulesOf(i)) :
           /\ inv[i].lenses[k].range = RulesOf(i)[k].location.range
           /\ inv[i].lenses[k].command.arguments =
                <<[workspaceDirectory |-> inv[i].workspace,
                   targets |-> <<RulesOf(i)[k].name>>]>>

C8_Witness ==
  \E i \in Invocations :
    /\ Answered(i)
    /\ Len(RulesOf(i)) = 2
    /\ RulesOf(i)[1].name = "//a/b:t" /\ RulesOf(i)[1].location.range = 2
    /\ RulesOf(i)[2].name = "//a/b:m" /\ RulesOf(i)[2].location.range = 1
    /\ Len(inv[i].lenses) = 2

\* C9: every invocation with a workspace root has constructed exactly one
\* query, its own, with (its workspace root, 'kind(rule, <its label>:all)',
\* no options); the lenses of a fulfilled invocation come from that query's
\* result and the invocation's workspace root.
C9_OwnQuery ==
  /\ \A i \in Invocations :
       Labelled(i) =>
         /\ QueriesBy(i) = {inv[i].query}
         /\ queries[inv[i].query].workspace = inv[i].workspace
         /\ queries[inv[i].query].query = "'kind(rule, " \o inv[i].pkg \o ":all)'"
         /\ queries[inv[i].query].options = <<>>
         /\ Answered(i) =>
              /\ Len(inv[i].lenses) = Len(RulesOf(i))
              /\ \A k \in 1..Len(RulesOf(i)) :
                   inv[i].lenses[k].command.arguments =
                     <<[workspaceDirectory |-> inv[i].workspace,
                        targets |-> <<RulesOf(i)[k].name>>]>>
         /\ (inv[i].fn = "getTargetsForBuildFile" /\ inv[i].pc = "fulfilled") =>
              inv[i].targets = queries[inv[i].query].result
  /\ Len(queries) = Cardinality({i \in Invocations : Labelled(i)})

C9_Witness ==
  \E i, j \in Invocations :
    /\ i # j
    /\ inv[i].fn = "getTargetsForBuildFile" /\ inv[j].fn = "getTargetsForBuildFile"
    /\ inv[i].fsPath = inv[j].fsPath /\ inv[i].workspace = inv[j].workspace
    /\ inv[i].pc = "fulfilled" /\ inv[j].pc = "fulfilled"
    /\ inv[i].targets # inv[j].targets
    /\ Len(queries) = 2

\* C10 as claimed: the directory part of the package label never begins
\* with ".".
C10_NoLeadingDot ==
  \A i \in Invocations :
    Labelled(i) => ~StartsWith(DirPart(inv[i].pkg), ".")

\* C10 as amended: the directory part of the package label is never exactly
\* "." and, for a BUILD file inside the workspace root, never begins with a
\* "." or ".." segment.
C10_NoDotSegment ==
  \A i \in Invocations :
    Labelled(i) =>
      LET dir == DirPart(inv[i].pkg) IN
      /\ StartsWith(inv[i].pkg, "//")
      /\ dir # "."
      /\ (\E segs \in RelDirs \cup {<<>>} : IsUnder(i, segs)) =>
           /\ dir # ".."
           /\ \A s \in {"/", "\\"} :
                ~StartsWith(dir, "." \o s) /\ ~StartsWith(dir, ".." \o s)

C10_Witness ==
  \E i \in Invocations :
    /\ Labelled(i)
    /\ IsUnder(i, <<".h">>)
    /\ inv[i].pkg = "//.h"

====
